---- MODULE Spec2Model ----
(***************************************************************************)
(* The debugging-practice session of src/src/challengeGenerator.js: the    *)
(* generation call generateChallengeFromAI, and the App component's        *)
(* session state, verification run (runTests) and countdown timer.         *)
(***************************************************************************)
EXTENDS Integers, Sequences, FiniteSets, TLC

(***************************************************************************)
(* Bounds of the model.                                                    *)
(***************************************************************************)
\* longest testCases sequence a generated record carries
MaxCases == 2
\* number of setInterval calls explored (timer ids are never reused)
MaxTimers == 2
\* number of generateChallengeFromAI calls explored
MaxRequests == 3
\* number of entries of the type list offered by the type filter
NumTypes == 2

(***************************************************************************)
(* Static data (lines 17-21, 135-136).                                     *)
(***************************************************************************)
difficulties == <<"Easy", "Medium", "Hard", "Expert">>
types == <<"Arrays", "Strings", "Math", "Recursion", "Objects", "Logic">>
difficultyLevels == difficulties
challengeTypes == SubSeq(types, 1, NumTypes)

Range(s) == {s[i] : i \in DOMAIN s}

\* Array.prototype.indexOf: 0-based position of the first match, -1 if none
indexOf(s, x) ==
  IF \E i \in DOMAIN s : s[i] = x
    THEN (CHOOSE i \in DOMAIN s : s[i] = x /\ \A j \in DOMAIN s : s[j] = x => i <= j) - 1
    ELSE -1

(***************************************************************************)
(* JavaScript values returned by candidate functions and expected by test  *)
(* cases.  t is the kind, k the keys of a mapping in insertion order, v    *)
(* the numbers held (one for a number, the elements of an array, the       *)
(* per-key values of a mapping).                                           *)
(***************************************************************************)
Num(n) == [t |-> "num", k |-> <<>>, v |-> <<n>>]
NaNValue == [t |-> "nan", k |-> <<>>, v |-> <<>>]
NullValue == [t |-> "null", k |-> <<>>, v |-> <<>>]
Undefined == [t |-> "undefined", k |-> <<>>, v |-> <<>>]
Arr(s) == [t |-> "arr", k |-> <<>>, v |-> s]
Obj(keys, vals) == [t |-> "obj", k |-> keys, v |-> vals]
\* the outcome of an invocation that raises instead of returning
Throw == [t |-> "throw", k |-> <<>>, v |-> <<>>]

ToStr(n) ==
  CASE n = 0 -> "0" [] n = 1 -> "1" [] n = 2 -> "2" [] n = 3 -> "3"
    [] n = 4 -> "4" [] n = 5 -> "5" [] n = 6 -> "6" [] n = 7 -> "7"
    [] n = 8 -> "8" [] n = 9 -> "9" [] OTHER -> "10"

RECURSIVE JoinNums(_)
JoinNums(s) ==
  IF s = <<>> THEN ""
  ELSE IF Len(s) = 1 THEN ToStr(s[1])
  ELSE ToStr(s[1]) \o "," \o JoinNums(Tail(s))

RECURSIVE JoinMembers(_, _)
JoinMembers(keys, vals) ==
  IF keys = <<>> THEN ""
  ELSE IF Len(keys) = 1 THEN "\"" \o keys[1] \o "\":" \o ToStr(vals[1])
  ELSE "\"" \o keys[1] \o "\":" \o ToStr(vals[1]) \o "," \o JoinMembers(Tail(keys), Tail(vals))

\* JSON.stringify (line 202): NaN and null both give "null", undefined gives
\* the non-string undefined, a mapping is written in key insertion order
JSONstringify(x) ==
  CASE x.t = "num" -> ToStr(x.v[1])
    [] x.t = "nan" -> "null"
    [] x.t = "null" -> "null"
    [] x.t = "arr" -> "[" \o JoinNums(x.v) \o "]"
    [] x.t = "obj" -> "{" \o JoinMembers(x.k, x.v) \o "}"
    [] OTHER -> "undefined"

(***************************************************************************)
(* Editor content.  A code string is malformed text (the empty string and  *)
(* the failure placeholder, a comment, are malformed once wrapped in       *)
(* return (...)), an expression that is no function, or a function, given  *)
(* by the outcome of invoking it on each test input and by what it leaves  *)
(* in place of the argument it was given (the same argument, unless it     *)
(* mutates its argument in place).                                         *)
(***************************************************************************)
Inputs == 1..MaxCases
ReturnValues == {Num(1), NaNValue}
ExpectedValues == {Num(1), NullValue}
Outcomes == ReturnValues \cup {Throw}
NoBody == [i \in Inputs |-> Undefined]
\* a function that leaves its arguments as they were
NoMutation == [i \in Inputs |-> i]

EmptyCode == [kind |-> "empty", body |-> NoBody, mut |-> NoMutation]
PlaceholderCode == [kind |-> "comment", body |-> NoBody, mut |-> NoMutation]
MalformedCode == [kind |-> "malformed", body |-> NoBody, mut |-> NoMutation]
ExpressionCode == [kind |-> "expression", body |-> NoBody, mut |-> NoMutation]
FunctionCode(f) == [kind |-> "function", body |-> f, mut |-> NoMutation]
\* a function that returns f[i] on argument i and leaves m[i] in its place
MutatingFunctionCode(f, m) == [kind |-> "function", body |-> f, mut |-> m]

Functions == [Inputs -> Outcomes]
Codes == {EmptyCode, PlaceholderCode, MalformedCode, ExpressionCode}
           \cup {FunctionCode(f) : f \in Functions}

(***************************************************************************)
(* Challenge records.  kind "null" is the JavaScript null; a record may    *)
(* lack buggyCode or testCases.                                            *)
(***************************************************************************)
NullChallenge ==
  [kind |-> "null", error |-> FALSE, hasBuggyCode |-> FALSE, buggyCode |-> EmptyCode,
   hasTestCases |-> FALSE, testCases |-> <<>>]

\* the record returned by the catch block (lines 118-124)
GenerationFailure ==
  [kind |-> "record", error |-> TRUE, hasBuggyCode |-> TRUE, buggyCode |-> PlaceholderCode,
   hasTestCases |-> TRUE, testCases |-> <<>>]

TestCase(i, e) == [input |-> i, expected |-> e]

\* test case sequences: the i-th case calls the function on input i
Oracles ==
  UNION {{[i \in 1..n |-> TestCase(i, e[i])] : e \in [1..n -> ExpectedValues]} : n \in 0..MaxCases}

CompleteRecord(bc, tcs) ==
  [kind |-> "record", error |-> FALSE, hasBuggyCode |-> TRUE, buggyCode |-> bc,
   hasTestCases |-> TRUE, testCases |-> tcs]
RecordWithoutTestCases(bc) ==
  [kind |-> "record", error |-> FALSE, hasBuggyCode |-> TRUE, buggyCode |-> bc,
   hasTestCases |-> FALSE, testCases |-> <<>>]
RecordWithoutBuggyCode(tcs) ==
  [kind |-> "record", error |-> FALSE, hasBuggyCode |-> FALSE, buggyCode |-> EmptyCode,
   hasTestCases |-> TRUE, testCases |-> tcs]

(***************************************************************************)
(* generateChallengeFromAI (lines 24-126).  A backend outcome is a         *)
(* transport/auth error of generateContent, a response text that is not   *)
(* JSON, or a response text that is the JSON of `value`.                   *)
(***************************************************************************)
TransportError == [o |-> "transport", value |-> NullChallenge]
UnparsableText == [o |-> "text", value |-> NullChallenge]
JSONText(val) == [o |-> "json", value |-> val]

\* lines 102-114: generateContent, response.text(), JSON.parse, return
TryBlock(outcome) ==
  IF outcome.o = "transport" THEN [raised |-> TRUE, value |-> NullChallenge]
  ELSE IF outcome.o = "text" THEN [raised |-> TRUE, value |-> NullChallenge]
  ELSE [raised |-> FALSE, value |-> outcome.value]

\* lines 116-125
CatchBlock == [raised |-> FALSE, value |-> GenerationFailure]

\* JSON.parse moved out of the try block: a parse fault escapes
generateChallengeFromAI_ParseUncaught(outcome) ==
  IF outcome.o = "transport" THEN CatchBlock ELSE TryBlock(outcome)

generateChallengeFromAI(outcome) ==
  IF TryBlock(outcome).raised THEN CatchBlock ELSE TryBlock(outcome)

(***************************************************************************)
(* runTests (lines 186-217) as a function of the live challenge and the    *)
(* editor content.                                                         *)
(***************************************************************************)
NotAFunctionMessage == "The provided code does not define a valid function."
SyntaxErrorMessage == "SyntaxError"
RuntimeErrorMessage == "RuntimeError"

\* line 188 with its guard dropped for an empty sequence
EarlyReturn_NoLengthCheck(ch) == ch.kind = "null" \/ ~ch.hasTestCases

\* line 188: !challenge || !challenge.testCases || challenge.testCases.length === 0
EarlyReturn(ch) == ch.kind = "null" \/ ~ch.hasTestCases \/ Len(ch.testCases) = 0

\* line 194: new Function(`return (${code})`)() raises on malformed text
CompileRaises(cd) == cd.kind \in {"empty", "comment", "malformed"}
\* the typeof test of line 195 left out
IsFunction_Unchecked(cd) == TRUE

\* line 195: typeof userFunction !== 'function'
IsFunction(cd) == cd.kind = "function"

\* line 201: userFunction(...testCase.input)
Invoke(cd, tc) == cd.body[tc.input]

\* line 202
TestResult(cd, tc) ==
  [pass |-> JSONstringify(Invoke(cd, tc)) = JSONstringify(tc.expected),
   actual |-> Invoke(cd, tc), expected |-> tc.expected]

\* lines 200-203: map stops at the first invocation that raises
MapRaises(ch, cd) == \E i \in DOMAIN ch.testCases : Invoke(cd, ch.testCases[i]) = Throw
testResults(ch, cd) == [i \in DOMAIN ch.testCases |-> TestResult(cd, ch.testCases[i])]

\* lines 200-201: the cases map invokes, up to the first that raises
Invoked(ch, cd) ==
  {i \in DOMAIN ch.testCases :
     \A j \in DOMAIN ch.testCases : j < i => Invoke(cd, ch.testCases[j]) # Throw}

\* line 201: the spread passes the elements of testCase.input themselves, so
\* what the function does to an argument it does to the test case's input
testCasesAfter(ch, cd) ==
  [i \in DOMAIN ch.testCases |->
     IF i \in Invoked(ch, cd)
       THEN [ch.testCases[i] EXCEPT !.input = cd.mut[ch.testCases[i].input]]
       ELSE ch.testCases[i]]

\* some instead of every
allPassed_Some(ch, cd) == \E i \in DOMAIN ch.testCases : testResults(ch, cd)[i].pass

\* line 205
allPassed(ch, cd) == \A i \in DOMAIN ch.testCases : testResults(ch, cd)[i].pass

\* line 208
ResultText(i, r) ==
  "Test " \o ToStr(i) \o ": " \o
    (IF r.pass THEN "Pass"
     ELSE "Fail (Expected: " \o JSONstringify(r.expected) \o ", Got: "
            \o JSONstringify(r.actual) \o ")")

\* lines 206-209
ResultLines(ch, cd) ==
  [i \in DOMAIN ch.testCases |->
     [pass |-> testResults(ch, cd)[i].pass, text |-> ResultText(i, testResults(ch, cd)[i])]]

\* what one runTests call does: returned = the guard of line 188 returned early;
\* results, syntaxError = the values set; start = startNextChallengeTimer called;
\* testCases = the challenge's test cases after the call
runTestsEffect(ch, cd) ==
  IF EarlyReturn(ch)
    THEN [returned |-> TRUE, results |-> <<>>, syntaxError |-> "", start |-> FALSE,
          testCases |-> ch.testCases]
  ELSE IF CompileRaises(cd)
    THEN [returned |-> FALSE, results |-> <<>>, syntaxError |-> SyntaxErrorMessage,
          start |-> FALSE, testCases |-> ch.testCases]
  ELSE IF ~IsFunction(cd)
    THEN [returned |-> FALSE, results |-> <<>>, syntaxError |-> NotAFunctionMessage,
          start |-> FALSE, testCases |-> ch.testCases]
  ELSE IF MapRaises(ch, cd)
    THEN [returned |-> FALSE, results |-> <<>>, syntaxError |-> RuntimeErrorMessage,
          start |-> FALSE, testCases |-> testCasesAfter(ch, cd)]
  ELSE [returned |-> FALSE, results |-> ResultLines(ch, cd), syntaxError |-> "",
        start |-> allPassed(ch, cd), testCases |-> testCasesAfter(ch, cd)]

(***************************************************************************)
(* The App component (lines 138-289).                                      *)
(***************************************************************************)
VARIABLES
  challenge,               \* line 139
  code,                    \* line 140
  results,                 \* line 141
  syntaxError,             \* line 142
  difficulty,              \* line 144
  type,                    \* line 145
  isLoading,               \* line 146
  timerRef,                \* line 148: timerRef.current
  nextChallengeCountdown,  \* line 149
  timers,                  \* the live intervals, each with the difficulty and type its callback closed over
  pending,                 \* the generateChallengeFromAI calls not yet settled
  nextTimerId,             \* the id the next setInterval returns
  nextReqId,               \* the number the next generation call gets
  challengeFrom,           \* history: the call whose result is the live challenge
  cancelled,               \* history: the timers started before an external request made during a countdown
  lastOp                   \* history: the handler that ran last

vars ==
  <<challenge, code, results, syntaxError, difficulty, type, isLoading, timerRef,
    nextChallengeCountdown, timers, pending, nextTimerId, nextReqId, challengeFrom,
    cancelled, lastOp>>

\* useRef(null) and useState(null)
NoTimer == 0
NoCountdown == -1
\* line 171
CountdownStart == 10

Request(id, d, t) == [id |-> id, difficulty |-> d, type |-> t]
NoRequest == Request(0, "Easy", "Arrays")

\* prev <= 1 (line 174) converts null to 0
ToNumber(n) == IF n = NoCountdown THEN 0 ELSE n

\* lines 176-177: difficultyLevels[indexOf(difficulty) + 1] || difficulty
nextDifficulty(d) ==
  IF indexOf(difficultyLevels, d) + 2 \in DOMAIN difficultyLevels
    THEN difficultyLevels[indexOf(difficultyLevels, d) + 2]
    ELSE d

\* clearInterval(timerRef.current): only the interval the ref names stops
clearInterval(ts, id) == {t \in ts : t.id # id}

\* lines 151-158, up to the await: the options of the new call are (d, t)
loadNewChallenge(d, t) ==
  /\ nextReqId <= MaxRequests
  /\ timers' = clearInterval(timers, timerRef)
  /\ nextChallengeCountdown' = NoCountdown
  /\ isLoading' = TRUE
  /\ results' = <<>>
  /\ syntaxError' = ""
  /\ pending' = pending \cup {Request(nextReqId, d, t)}
  /\ nextReqId' = nextReqId + 1
  /\ UNCHANGED <<challenge, code, timerRef, nextTimerId, challengeFrom>>

\* the timers a request made now cancels, were a countdown active
CancelledNow ==
  IF nextChallengeCountdown # NoCountdown THEN cancelled \cup (1..(nextTimerId - 1)) ELSE cancelled

\* the state after the first render and its effect (lines 139-149, 166-168)
Init ==
  /\ challenge = NullChallenge
  /\ code = EmptyCode
  /\ results = <<>>
  /\ syntaxError = ""
  /\ difficulty = "Easy"
  /\ type = "Arrays"
  /\ isLoading = TRUE
  /\ timerRef = NoTimer
  /\ nextChallengeCountdown = NoCountdown
  /\ timers = {}
  /\ pending = {Request(1, "Easy", "Arrays")}
  /\ nextTimerId = 1
  /\ nextReqId = 2
  /\ challengeFrom = NoRequest
  /\ cancelled = {}
  /\ lastOp = "mount"

\* lines 158-162: the call r settles with `outcome`
Settle(r, outcome) ==
  /\ pending' = pending \ {r}
  /\ lastOp' = "resolve"
  /\ UNCHANGED <<results, syntaxError, difficulty, type, timerRef, nextChallengeCountdown,
                 timers, nextTimerId, nextReqId, cancelled>>
  /\ IF generateChallengeFromAI(outcome).raised
       THEN UNCHANGED <<challenge, code, isLoading, challengeFrom>>
       ELSE LET newChallenge == generateChallengeFromAI(outcome).value IN
            /\ challenge' = newChallenge
            /\ challengeFrom' = r
            /\ IF newChallenge.kind = "null"
                 THEN UNCHANGED <<code, isLoading>>   \* line 161 raises a TypeError
                 ELSE /\ code' = IF newChallenge.hasBuggyCode THEN newChallenge.buggyCode
                                 ELSE EmptyCode
                      /\ isLoading' = FALSE

\* the filter controls and the header button are disabled while loading (lines 277-283)
selectDifficulty(d) ==
  /\ ~isLoading
  /\ d # difficulty
  /\ difficulty' = d
  /\ loadNewChallenge(d, type)
  /\ cancelled' = CancelledNow
  /\ lastOp' = "selectDifficulty"
  /\ UNCHANGED type

selectType(t) ==
  /\ ~isLoading
  /\ t # type
  /\ type' = t
  /\ loadNewChallenge(difficulty, t)
  /\ cancelled' = CancelledNow
  /\ lastOp' = "selectType"
  /\ UNCHANGED difficulty

\* line 220, from the header button or the retry button (line 239)
handleGetNewProblem ==
  /\ ~isLoading
  /\ loadNewChallenge(difficulty, type)
  /\ cancelled' = CancelledNow
  /\ lastOp' = "getNewProblem"
  /\ UNCHANGED <<difficulty, type>>

\* the editor and the Run Tests button are rendered for a loaded challenge
\* without the error flag (lines 224-254)
MainShown == ~isLoading /\ challenge.kind # "null" /\ ~challenge.error

\* line 219
handleCodeChange(value) ==
  /\ MainShown
  /\ value # code
  /\ code' = value
  /\ lastOp' = "handleCodeChange"
  /\ UNCHANGED <<challenge, results, syntaxError, difficulty, type, isLoading, timerRef,
                 nextChallengeCountdown, timers, pending, nextTimerId, nextReqId,
                 challengeFrom, cancelled>>

\* lines 170-172: the interval closes over the difficulty and type of this render
startNextChallengeTimer ==
  /\ nextTimerId <= MaxTimers
  /\ nextChallengeCountdown' = CountdownStart
  /\ timers' = timers \cup {Request(nextTimerId, difficulty, type)}
  /\ timerRef' = nextTimerId
  /\ nextTimerId' = nextTimerId + 1

\* lines 186-217
runTests ==
  /\ MainShown
  /\ lastOp' = "runTests"
  /\ UNCHANGED <<code, difficulty, type, isLoading, pending, nextReqId,
                 challengeFrom, cancelled>>
  /\ LET e == runTestsEffect(challenge, code) IN
     /\ challenge' = [challenge EXCEPT !.testCases = e.testCases]
     /\ IF e.returned THEN UNCHANGED <<results, syntaxError>>
        ELSE results' = e.results /\ syntaxError' = e.syntaxError
     /\ IF e.start THEN startNextChallengeTimer
        ELSE UNCHANGED <<nextChallengeCountdown, timers, timerRef, nextTimerId>>

\* lines 172-183: one firing of the live interval t
Tick(t) ==
  /\ lastOp' = "tick"
  /\ UNCHANGED <<difficulty, type, cancelled>>
  /\ IF ToNumber(nextChallengeCountdown) <= 1
       THEN loadNewChallenge(nextDifficulty(t.difficulty), t.type)
       ELSE /\ nextChallengeCountdown' = nextChallengeCountdown - 1
            /\ UNCHANGED <<challenge, code, results, syntaxError, isLoading, timerRef,
                           timers, pending, nextTimerId, nextReqId, challengeFrom>>

(***************************************************************************)
(* What the backend may answer and what the user may type.                 *)
(***************************************************************************)
\* the flawed function of the generated records: it returns NaN on every input
FlawedCode == FunctionCode([i \in Inputs |-> NaNValue])
\* a function that returns 1 on every input
CorrectCode == FunctionCode([i \in Inputs |-> Num(1)])
\* a function that raises on the first input and returns 1 on the others
FaultingCode == FunctionCode([i \in Inputs |-> IF i = 1 THEN Throw ELSE Num(1)])

\* the oracle of n test cases that expects 1 on every input
OracleOfOnes(n) == [i \in 1..n |-> TestCase(i, Num(1))]

OutcomesOver(oracles) ==
  {TransportError, UnparsableText, JSONText(NullChallenge),
   JSONText(RecordWithoutTestCases(FlawedCode))}
    \cup {JSONText(RecordWithoutBuggyCode(o)) : o \in oracles}
    \cup {JSONText(CompleteRecord(FlawedCode, o)) : o \in oracles}

\* every answer and every editor content within the bounds
BackendOutcomes == OutcomesOver(Oracles)
\* the answers and editor contents of the session specification
SessionOutcomes == OutcomesOver({OracleOfOnes(0), OracleOfOnes(MaxCases)})
SessionCodes == {MalformedCode, ExpressionCode, CorrectCode, FaultingCode}

Resolve(outcomes) == \E r \in pending : \E outcome \in outcomes : Settle(r, outcome)
SelectDifficulty == \E d \in Range(difficultyLevels) : selectDifficulty(d)
SelectType == \E t \in Range(challengeTypes) : selectType(t)
GetNewProblem == handleGetNewProblem
EditCode(codes) == \E value \in codes : handleCodeChange(value)
RunTests == runTests
TimerTick == \E t \in timers : Tick(t)

\* the whole session, over the session's answers and editor contents
Next ==
  \/ Resolve(SessionOutcomes)
  \/ SelectDifficulty
  \/ SelectType
  \/ GetNewProblem
  \/ EditCode(SessionCodes)
  \/ RunTests
  \/ TimerTick

Spec == Init /\ [][Next]_vars

\* the verification engine alone: the first answer, edits and runs, over
\* every answer and every editor content within the bounds
VerifyNext ==
  \/ Resolve(BackendOutcomes)
  \/ EditCode(Codes)
  \/ RunTests

VerifySpec == Init /\ [][VerifyNext]_vars

\* structured values a function returns and a test case expects: numbers,
\* arrays in both orders, mappings with the same members in both key orders
StructuredValues ==
  {Num(1), Num(2), NaNValue, NullValue, Arr(<<1, 2>>), Arr(<<2, 1>>),
   Obj(<<"a", "b">>, <<1, 2>>), Obj(<<"b", "a">>, <<2, 1>>), Obj(<<"a", "b">>, <<2, 1>>)}
\* one test case on input 1; an expected value is parsed from JSON text, which
\* has no NaN
StructuredOracles == {<<TestCase(1, e)>> : e \in StructuredValues \ {NaNValue}}
StructuredOutcomes ==
  {TransportError} \cup {JSONText(CompleteRecord(FlawedCode, o)) : o \in StructuredOracles}
\* a function that sorts its argument in place: input 1 is the argument as
\* generated, on which it returns Arr(<<1, 2>>); any other input is that
\* argument once sorted, on which it returns Arr(<<2, 1>>)
SortInPlace ==
  MutatingFunctionCode([i \in Inputs |-> IF i = 1 THEN Arr(<<1, 2>>) ELSE Arr(<<2, 1>>)],
                       [i \in Inputs |-> IF i < MaxCases THEN i + 1 ELSE i])
StructuredCodes ==
  {FunctionCode([i \in Inputs |-> v]) : v \in StructuredValues} \cup {SortInPlace}

\* the verification engine over structured values and argument-mutating code
CompareNext ==
  \/ Resolve(StructuredOutcomes)
  \/ EditCode(StructuredCodes)
  \/ RunTests

CompareSpec == Init /\ [][CompareNext]_vars

(***************************************************************************)
(* The claims.                                                             *)
(***************************************************************************)
\* what the report entry of test case i must say when one faulting case does
\* not disturb the others
IsolatedPass(ch, cd, i) ==
  /\ Invoke(cd, ch.testCases[i]) # Throw
  /\ JSONstringify(Invoke(cd, ch.testCases[i])) = JSONstringify(ch.testCases[i].expected)

\* C1: a run of runTests on code that compiles to a function, against an
\* oracle of n >= 1 test cases, leaves a report of exactly n entries in
\* test-case order; the entry of a faulting case fails and every other entry
\* is what the case gives on its own.
C1_FaultDoesNotAbortRun ==
  [][(runTests /\ IsFunction(code) /\ ~EarlyReturn(challenge)) =>
       /\ Len(results') = Len(challenge.testCases)
       /\ \A i \in DOMAIN challenge.testCases :
            results'[i].pass = IsolatedPass(challenge, code, i)]_vars

\* C2: there is never more than one live interval timer.
C2_AtMostOneTimer == Cardinality(timers) <= 1

\* a step that is a request from outside the countdown: a filter change or
\* Get New Problem
ExternalRequest == SelectDifficulty \/ SelectType \/ GetNewProblem

\* C3: a filter change or Get New Problem made during a countdown returns the
\* countdown to none at once, and no timer started before that request
\* issues a generation request by a later tick.
C3_CancelledTimerNeverAdvances ==
  /\ [][(ExternalRequest /\ nextChallengeCountdown # NoCountdown) =>
          nextChallengeCountdown' = NoCountdown]_vars
  /\ [][\A t \in timers : (Tick(t) /\ pending' # pending) => t.id \notin cancelled]_vars

\* C4: while a generation call is outstanding the session is loading.
C4_PendingImpliesLoading == pending # {} => isLoading

\* C5: once every outstanding call has settled, the live challenge is the
\* one returned for the most recently issued request.
C5_LatestRequestWins == pending = {} => challengeFrom.id = nextReqId - 1

\* C6: a call that ends in a transport/auth error or in a response text that
\* is not JSON resolves to the failure record, with error set and no test
\* cases, and the session leaves the loading state.
C6_FaultsBecomeGenerationFailure ==
  [][\A r \in pending : \A o \in {TransportError, UnparsableText} :
       Settle(r, o) =>
         /\ challenge' = GenerationFailure
         /\ challenge'.error
         /\ challenge'.testCases = <<>>
         /\ ~isLoading']_vars

C6_Witness == lastOp = "resolve" /\ challenge = GenerationFailure /\ ~isLoading

\* the answers that parse as JSON and are no complete challenge record
IncompleteOutcomes ==
  {o \in SessionOutcomes :
     /\ o.o = "json"
     /\ (o.value.kind = "null" \/ ~o.value.hasTestCases \/ ~o.value.hasBuggyCode)}

\* C7: a response that parses as JSON and is no complete challenge record
\* gives the failure record, never the partial value.
C7_IncompleteRecordIsFailure ==
  [][\A r \in pending : \A o \in IncompleteOutcomes :
       Settle(r, o) => challenge' = GenerationFailure]_vars

\* the code compiles to a function, the oracle has at least one test case and
\* every case returns a value that compares equal to the expected one
CompiledAndEveryCasePassed(ch, cd) ==
  /\ cd.kind = "function"
  /\ ch.kind = "record" /\ ch.hasTestCases /\ Len(ch.testCases) >= 1
  /\ \A i \in 1..Len(ch.testCases) :
       /\ cd.body[ch.testCases[i].input] # Throw
       /\ JSONstringify(cd.body[ch.testCases[i].input])
            = JSONstringify(ch.testCases[i].expected)

\* C8: a runTests call made with no countdown active starts the countdown, at
\* 10, if and only if the code compiled to a function, the oracle has at
\* least one test case and every case passed; and nothing but a runTests
\* call takes the countdown from none to a number.
C8_CountdownStartsIffAllPassed ==
  /\ [][(runTests /\ nextChallengeCountdown = NoCountdown) =>
          /\ nextChallengeCountdown' \in {NoCountdown, 10}
          /\ (nextChallengeCountdown' = 10) <=> CompiledAndEveryCasePassed(challenge, code)]_vars
  /\ [][(nextChallengeCountdown = NoCountdown /\ nextChallengeCountdown' # NoCountdown) =>
          lastOp' = "runTests"]_vars

C8_Witness ==
  /\ lastOp = "runTests"
  /\ nextChallengeCountdown = 10
  /\ Len(results) = MaxCases
  /\ \A i \in DOMAIN results : results[i].pass

\* C9: a tick at a remaining count above 1 lowers the count by one and issues
\* nothing; the tick at count 1 issues exactly one generation request, with
\* the session's type and the successor of the session's difficulty, stops
\* the timer and returns the countdown to none.
C9_CountdownRunsToOneRequest ==
  [][\A t \in timers : Tick(t) =>
       /\ nextChallengeCountdown > 1 =>
            /\ nextChallengeCountdown' = nextChallengeCountdown - 1
            /\ pending' = pending
       /\ nextChallengeCountdown = 1 =>
            /\ pending' = pending \cup {Request(nextReqId, nextDifficulty(difficulty), type)}
            /\ timers' = {}
            /\ nextChallengeCountdown' = NoCountdown]_vars

\* C10: runTests on an oracle whose testCases sequence is empty starts no
\* countdown and issues no request, whatever the code: in every reachable
\* state with such an oracle no editor content would start the timer, and a
\* runTests step leaves the countdown, the timers and the outstanding calls
\* as they were.
C10_EmptyOracleNeverPasses ==
  /\ [](Len(challenge.testCases) = 0 =>
          \A cd \in Codes : ~runTestsEffect(challenge, cd).start)
  /\ [][(runTests /\ Len(challenge.testCases) = 0) =>
          UNCHANGED <<nextChallengeCountdown, timers, timerRef, nextTimerId, pending>>]_vars

C10_Witness ==
  /\ lastOp = "runTests"
  /\ challenge.kind = "record" /\ challenge.hasTestCases /\ challenge.testCases = <<>>
  /\ IsFunction(code)
  /\ nextChallengeCountdown = NoCountdown

\* C11: a runTests call on code that compiles to a function, against an
\* oracle with at least one test case, leaves the compile-fault message
\* (syntaxError) empty, whatever the invocations do.
C11_RuntimeFaultNotEscalated ==
  [][(runTests /\ code.kind = "function" /\ ~EarlyReturn(challenge)) =>
       syntaxError' = ""]_vars

\* the code string is malformed, or evaluates to a value that is no function
CompileFault(cd) == cd.kind # "function"

\* what C12 says of a runTests step: empty report, a fault message that is
\* the compile fault's and not empty, progression state untouched
CompileFaultHandled ==
  /\ results' = <<>>
  /\ syntaxError' # "" /\ syntaxError' # RuntimeErrorMessage
  /\ UNCHANGED <<nextChallengeCountdown, timers, timerRef, nextTimerId, pending>>

\* C12 as stated: on a compile fault runTests leaves the report empty, sets a
\* non-empty fault message and does not change the progression state.
C12_CompileFaultRunsNoCase ==
  [][(runTests /\ CompileFault(code)) => CompileFaultHandled]_vars

\* C12 as amended: the same, when the live challenge has at least one test
\* case (with none, runTests returns at its guard and sets no message).
C12_CompileFaultRunsNoCase_Amended ==
  [][(runTests /\ CompileFault(code) /\ challenge.kind = "record"
         /\ challenge.hasTestCases /\ Len(challenge.testCases) >= 1) =>
       CompileFaultHandled]_vars

C12_Witness ==
  /\ lastOp = "runTests"
  /\ CompileFault(code)
  /\ Len(challenge.testCases) >= 1
  /\ results = <<>>
  /\ syntaxError \in {SyntaxErrorMessage, NotAFunctionMessage}


\* canonical structural equality: same kind; numbers by value; sequences
\* element by element in order; mappings by key set and per-key value
ValueAt(o, key) == o.v[CHOOSE i \in DOMAIN o.k : o.k[i] = key]
DeepEqual(a, b) ==
  /\ a.t = b.t
  /\ CASE a.t = "num" -> a.v = b.v
       [] a.t = "arr" -> a.v = b.v
       [] a.t = "obj" -> /\ Range(a.k) = Range(b.k)
                         /\ \A key \in Range(a.k) : ValueAt(a, key) = ValueAt(b, key)
       [] OTHER -> TRUE

\* C13: after a run that compiled and raised nothing, the pass flag of every
\* test case equals the canonical structural equality of the value the
\* function returned and the expected value.
C13_PassIsDeepEquality ==
  [][(runTests /\ code.kind = "function" /\ ~EarlyReturn(challenge)
        /\ ~MapRaises(challenge, code)) =>
       /\ Len(results') = Len(challenge.testCases)
       /\ \A i \in DOMAIN challenge.testCases :
            results'[i].pass =
              DeepEqual(Invoke(code, challenge.testCases[i]), challenge.testCases[i].expected)]_vars

\* C14: a run leaves the input and the expected value of every test case of
\* the live challenge as they were, so a second run of the same code gives
\* the same report.
C14_OracleImmutable ==
  [][runTests => challenge' = challenge]_vars

\* C15: a generation request leaves the loading state when it settles,
\* whatever the backend answered: once the answer to the only request in
\* flight has arrived, the session is no longer loading.
C15_SettledRequestLeavesLoading ==
  [][(\E r \in pending : \E outcome \in SessionOutcomes :
        Settle(r, outcome) /\ pending' = {}) => ~isLoading']_vars

\* C16: when the countdown of the only live timer runs out, the request it
\* issues asks for the difficulty one level above the difficulty the live
\* challenge was requested with (Expert stays Expert), and for the same type.
C16_AdvanceEscalatesFromLiveChallenge ==
  [][\A t \in timers :
       (timers = {t} /\ nextChallengeCountdown = 1 /\ Tick(t)) =>
         pending' \ pending =
           {Request(nextReqId, nextDifficulty(challengeFrom.difficulty), challengeFrom.type)}]_vars

\* the report on screen is that of a failed run: a compile or runtime fault
\* message, or a failing case
FailedReportShown ==
  syntaxError # "" \/ \E i \in DOMAIN results : ~results[i].pass

\* C18: while the most recent run on the live challenge is a failed one, the
\* tick of the only live timer issues no generation request, also when the
\* failed run happened during the countdown an earlier passing run started.
C18_FailedRunBlocksProgression ==
  [][\A t \in timers :
       (timers = {t} /\ nextChallengeCountdown # NoCountdown /\ FailedReportShown /\ Tick(t)) =>
         pending' = pending]_vars

\* C17: a step that issues a generation request clears the report and the
\* fault message and sets the countdown to none; the step that settles a
\* request makes the live challenge the returned value and the editor content
\* that value's flawed code (empty if it has none), with no report and no
\* fault message left.
IssuesRequest == nextReqId' = nextReqId + 1
C17_RequestReplacesSessionState ==
  [][/\ IssuesRequest =>
          results' = <<>> /\ syntaxError' = "" /\ nextChallengeCountdown' = NoCountdown
     /\ \A r \in pending : \A outcome \in SessionOutcomes :
          Settle(r, outcome) =>
            LET newChallenge == generateChallengeFromAI(outcome).value IN
            /\ challenge' = newChallenge
            /\ code' = IF newChallenge.hasBuggyCode THEN newChallenge.buggyCode ELSE EmptyCode
            /\ results' = <<>> /\ syntaxError' = ""]_vars

\* C19: the countdown is none or an integer from 1 to 10; it is none whenever
\* no interval timer is live, and no interval timer is live while it is none.
C19_CountdownRangeAndIdle ==
  /\ nextChallengeCountdown \in {NoCountdown} \cup (1..CountdownStart)
  /\ timers = {} => nextChallengeCountdown = NoCountdown
  /\ nextChallengeCountdown = NoCountdown => timers = {}

====
